---- MODULE Spec2Model ----
(***************************************************************************)
(* Verification model of the agent orchestration core:                     *)
(*   - LLMGateway (packages/core/src/llm/gateway.py): provider fallback,   *)
(*     per-provider health state, chat / chat_stream / health_check;       *)
(*   - OllamaAgent._handle_sync_response (packages/core/src/agents/base.py)*)
(*     and ToolExecutor.execute_tool (packages/core/src/tools/executor.py):*)
(*     the bounded tool-calling loop;                                      *)
(*   - SupervisorOrchestrator and AgentStateManager                        *)
(*     (packages/core/src/orchestrator/supervisor.py, agent_state.py) with *)
(*     the streaming wrappers of api/routes/chat.py and                    *)
(*     services/chat_service.py: routing of a query to one enabled agent   *)
(*     and the events of the stream;                                       *)
(*   - TaskManager (packages/core/src/services/task_manager.py): the       *)
(*     registry of cancellable tasks.                                      *)
(* The gateway runs on one asyncio event loop: code between two awaits is  *)
(* one atomic step, every await is a point where other requests may run.   *)
(***************************************************************************)
EXTENDS Integers, Sequences, FiniteSets, TLC

\* ------------------------------------------------------------------------
\* Bounds of the model
\* ------------------------------------------------------------------------
\* consecutive_failures is unbounded in the code; failures are injected only
\* while the counter is below this cap.
MaxFailures == 4
\* chunks a caller receives within one chat_stream call
MaxChunks == 2
\* cancel_task calls within one behaviour
MaxCancels == 3

\* ------------------------------------------------------------------------
\* Program constants and configurations
\* ------------------------------------------------------------------------
\* GatewayConfig.max_failures_before_unhealthy
max_failures_before_unhealthy == 3

None == "none"

\* provider names; a name that is not registered is a wrong hint
Names == {"primary", "backup", "spare"}
\* GatewayConfig.default_provider
default_provider == "primary"

\* the elements of a sequence
Range(s) == {s[i] : i \in 1..Len(s)}

\* What register_provider / set_fallback_chain / GatewayConfig may have set up
\* before the first request: providers in registration order (the dict order
\* of _providers), the fallback chain (empty: never set), fallback_enabled.
SerialConfigs ==
    [providers : {<<"primary", "backup", "spare">>},
     chain : { <<>>, <<"primary", "backup", "spare">>, <<"backup", "primary">> },
     fallback : BOOLEAN]
    \cup
    [providers : {<<"primary", "backup">>},
     chain : { <<"primary", "backup">> },
     fallback : {TRUE}]

ConcurrentConfigs ==
    [providers : {<<"primary", "backup">>},
     chain : { <<"primary", "backup">> },
     fallback : {TRUE}]

\* concurrent callers of the gateway; the callers are interchangeable, so the
\* slot r2 is taken only while r1 is busy
Req == {"r1", "r2"}
Earlier(r) == IF r = "r2" THEN {"r1"} ELSE {}

VARIABLES
    providers,         \* _providers: the registered names, in registration order
    provider_status,   \* _provider_status: name -> [healthy, consecutive_failures]
    fallback_chain,    \* _fallback_chain
    fallback_enabled,  \* _config.fallback_enabled
    req,               \* one record per caller: the position of its chat/chat_stream call
    hc,                \* the position of the health_check call in progress
    agent,             \* OllamaAgent._handle_sync_response: its locals and position
    agents,            \* SupervisorOrchestrator.agents: the blueprint's agents, in dict order
    disabled,          \* AgentStateManager._disabled_agents of the session and blueprint
    stream,            \* one streaming request: route or service wrapper and process_query_streaming
    handle,            \* one non-streaming request: process_query
    tm                 \* TaskManager._tasks, the asyncio tasks and their pending done-callbacks

config == <<providers, fallback_chain, fallback_enabled>>
gateway == <<providers, provider_status, fallback_chain, fallback_enabled, req, hc>>
orchestration == <<agents, disabled, stream, handle>>
vars == <<providers, provider_status, fallback_chain, fallback_enabled, req, hc, agent,
          agents, disabled, stream, handle, tm>>

Registered == Range(providers)

\* ------------------------------------------------------------------------
\* ProviderStatus and its recorders
\* ------------------------------------------------------------------------
ProviderStatus == [healthy |-> TRUE, consecutive_failures |-> 0]

\* variant: the healthy flag is not consulted
GetHealthyProvidersUnfiltered(status, registered, chain) ==
    IF chain = <<>> THEN registered ELSE chain

\* _get_healthy_providers
GetHealthyProviders(status, registered, chain) ==
    LET IsHealthy(p) == status[p].healthy
    IN  IF chain = <<>>
        THEN SelectSeq(registered, IsHealthy)
        ELSE SelectSeq(chain, IsHealthy)

\* variant: the provider is marked healthy but its counter is kept
RecordSuccessKeepsCount(status, p) ==
    [status EXCEPT ![p].healthy = TRUE]

\* _record_success
RecordSuccess(status, p) ==
    [status EXCEPT ![p] = [healthy |-> TRUE, consecutive_failures |-> 0]]

\* variant: the failure is not counted
RecordFailureLost(status, p) == status

\* variant: the comparison with the threshold is strict
RecordFailureLate(status, p) ==
    LET n == status[p].consecutive_failures + 1
    IN  [status EXCEPT ![p] =
            [healthy |-> IF n > max_failures_before_unhealthy THEN FALSE ELSE @.healthy,
             consecutive_failures |-> n]]

\* _record_failure: increment, then compare with the threshold, no await between
RecordFailure(status, p) ==
    LET n == status[p].consecutive_failures + 1
    IN  [status EXCEPT ![p] =
            [healthy |-> IF n >= max_failures_before_unhealthy THEN FALSE ELSE @.healthy,
             consecutive_failures |-> n]]

\* variant: a hinted provider is followed by the healthy providers
ProvidersToTryHintFirst(status, registered, chain, fb, hint) ==
    LET hp == GetHealthyProviders(status, registered, chain)
        NotHint(p) == p # hint
    IN  IF hint # None THEN <<hint>> \o SelectSeq(hp, NotHint)
        ELSE IF fb THEN (IF hp = <<>> THEN registered ELSE hp)
        ELSE <<default_provider>>

\* variant: with no healthy provider there is nothing to try
ProvidersToTryHealthyOnly(status, registered, chain, fb, hint) ==
    IF hint # None THEN <<hint>>
    ELSE IF fb THEN GetHealthyProviders(status, registered, chain)
    ELSE <<default_provider>>

\* providers_to_try of chat and chat_stream
ProvidersToTry(status, registered, chain, fb, hint) ==
    IF hint # None THEN <<hint>>
    ELSE IF fb
         THEN LET hp == GetHealthyProviders(status, registered, chain)
              IN  IF hp = <<>> THEN registered ELSE hp
         ELSE <<default_provider>>

\* the loop's `if not llm_provider: continue`: the next position after i whose
\* name is registered, Len(order)+1 when there is none
NextIdx(order, i, known) ==
    LET later == {j \in (i+1)..Len(order) : order[j] \in known}
    IN  IF later = {} THEN Len(order) + 1
        ELSE CHOOSE j \in later : \A k \in later : j <= k

\* ------------------------------------------------------------------------
\* One caller's call of chat / chat_stream
\* ------------------------------------------------------------------------
NoResult == [kind |-> "none", from |-> None, error |-> None]

\* op: which entry point; pc: "idle", "await" (suspended in the provider call
\* or in the stream's next chunk), "done" (returned or raised);
\* order/idx: providers_to_try and the loop position; last_error: the loop's
\* last_error; first_chunk: chat_stream's flag, set at each attempt and cleared
\* by the attempt's first chunk; deadline: the awaited provider call is
\* wrapped in asyncio.wait_for; silent: the provider contacted will never
\* answer the call in progress.
\* Histories: contacted: providers whose chat/chat_stream was called;
\* received: the provider of each chunk yielded to the caller;
\* base: provider_status when the call began
IdleReq ==
    [op |-> None, pc |-> "idle", hint |-> None, order |-> <<>>, idx |-> 0,
     last_error |-> None, first_chunk |-> TRUE, contacted |-> <<>>, received |-> <<>>,
     result |-> NoResult, base |-> [n \in Names |-> ProviderStatus],
     deadline |-> FALSE, silent |-> FALSE]

\* provider_status as _provider_status.get(name, ProviderStatus(name)) reads it
Snapshot(status) ==
    [n \in Names |-> IF n \in DOMAIN status THEN status[n] ELSE ProviderStatus]

\* the provider the call is suspended on
Current(r) == req[r].order[req[r].idx]

\* the call returns or raises: its locals go out of scope, the result and the
\* histories stay until the caller takes them
Complete(q, result) ==
    [q EXCEPT !.pc = "done", !.order = <<>>, !.idx = 0, !.last_error = None,
              !.first_chunk = TRUE, !.result = result,
              !.deadline = FALSE, !.silent = FALSE]

\* entering the loop at the first registered name after position i: either the
\* provider is called (the call suspends) or the loop is exhausted and the call
\* raises last_error, else ProviderError("No providers available")
Advance(q, i, err) ==
    LET j == NextIdx(q.order, i, Registered)
    IN  IF j <= Len(q.order)
        THEN [q EXCEPT !.pc = "await", !.idx = j, !.last_error = err,
                       !.first_chunk = TRUE, !.contacted = Append(@, q.order[j]),
                       !.deadline = (q.op = "chat"), !.silent = FALSE]
        ELSE Complete(q, IF err = None
                         THEN [kind |-> "raised", from |-> "gateway",
                               error |-> "no_providers"]
                         ELSE [kind |-> "raised", from |-> q.order[i], error |-> err])

\* a call begins: providers_to_try is computed and the first provider called.
\* The histories base and received are kept when callers take turns (track);
\* they describe one call and are left empty while calls overlap.
Begin(r, op, hint, track) ==
    /\ req[r].pc = "idle"
    /\ \A e \in Earlier(r) : req[e].pc # "idle"
    /\ LET order == ProvidersToTry(provider_status, providers, fallback_chain,
                                   fallback_enabled, hint)
           q == [IdleReq EXCEPT !.op = op, !.hint = hint, !.order = order,
                                !.base = IF track THEN Snapshot(provider_status) ELSE @]
       IN  req' = [req EXCEPT ![r] = Advance(q, 0, None)]
    /\ UNCHANGED <<config, provider_status, hc, agent, orchestration, tm>>

\* LLMGateway.chat, up to the first await
ChatStart(r, hint, track) == Begin(r, "chat", hint, track)

\* LLMGateway.chat_stream, up to the first await
StreamStart(r, hint, track) == Begin(r, "chat_stream", hint, track)

\* the call is suspended in the provider's call, which will answer
Awaiting(r, op) == req[r].pc = "await" /\ req[r].op = op /\ ~req[r].silent

\* the provider contacted turns out to be one that never answers: no
\* response, no chunk, no error will come from it
ProviderNeverAnswers(r) ==
    /\ Awaiting(r, req[r].op)
    /\ req' = [req EXCEPT ![r].silent = TRUE]
    /\ UNCHANGED <<config, provider_status, hc, agent, orchestration, tm>>

\* a failure may be injected while the provider's counter is below the cap
MayFail(r) == provider_status[Current(r)].consecutive_failures < MaxFailures

\* the provider answered: _record_success, return response
Succeed(r) ==
    /\ provider_status' = RecordSuccess(provider_status, Current(r))
    /\ req' = [req EXCEPT ![r] = Complete(@, [kind |-> "ok", from |-> Current(r),
                                               error |-> None])]
    /\ UNCHANGED <<config, hc, agent, orchestration, tm>>

\* a failure the loop survives: _record_failure, last_error = e, next candidate
FailOver(r, err) ==
    /\ MayFail(r)
    /\ provider_status' = RecordFailure(provider_status, Current(r))
    /\ req' = [req EXCEPT ![r] = Advance(req[r], req[r].idx, err)]
    /\ UNCHANGED <<config, hc, agent, orchestration, tm>>

\* variant: a non-retriable error is handled like a retriable one
AbortContinues(r, err) == FailOver(r, err)

\* a non-retriable ProviderError: _record_failure, then raise
Abort(r, err) ==
    /\ MayFail(r)
    /\ provider_status' = RecordFailure(provider_status, Current(r))
    /\ req' = [req EXCEPT ![r] = Complete(@, [kind |-> "raised", from |-> Current(r),
                                               error |-> err])]
    /\ UNCHANGED <<config, hc, agent, orchestration, tm>>

\* chat: the awaited provider.chat returned a response
ChatResponse(r) == Awaiting(r, "chat") /\ Succeed(r)

\* chat: asyncio.wait_for hit request_timeout_seconds
ChatTimeout(r) ==
    /\ req[r].pc = "await"
    /\ req[r].deadline
    /\ FailOver(r, "timeout")

\* chat: ProviderError with e.retriable
ChatRetriableError(r) == Awaiting(r, "chat") /\ FailOver(r, "retriable")

\* chat: ProviderError with not e.retriable
ChatNonRetriableError(r) == Awaiting(r, "chat") /\ Abort(r, "non_retriable")

\* chat: any other Exception
ChatException(r) == Awaiting(r, "chat") /\ FailOver(r, "exception")

\* chat_stream: the provider's stream produced a chunk, yielded to the caller
StreamChunk(r, track) ==
    /\ Awaiting(r, "chat_stream")
    /\ IF track THEN Len(req[r].received) < MaxChunks ELSE req[r].first_chunk
    /\ req' = [req EXCEPT ![r].first_chunk = FALSE,
                          ![r].received = IF track THEN Append(@, Current(r)) ELSE @]
    /\ UNCHANGED <<config, provider_status, hc, agent, orchestration, tm>>

\* chat_stream: the provider's stream ended: _record_success, return
StreamEnd(r) == Awaiting(r, "chat_stream") /\ Succeed(r)

\* chat_stream: ProviderError with e.retriable, raised by the stream at any
\* point of the `async for` (the try block encloses the whole iteration)
StreamRetriableError(r) == Awaiting(r, "chat_stream") /\ FailOver(r, "retriable")

\* chat_stream: ProviderError with not e.retriable
StreamNonRetriableError(r) == Awaiting(r, "chat_stream") /\ Abort(r, "non_retriable")

\* chat_stream: any other Exception raised by the stream
StreamException(r) == Awaiting(r, "chat_stream") /\ FailOver(r, "exception")

\* the caller has taken the result; the slot serves the caller's next call
Finish(r) ==
    /\ req[r].pc = "done"
    /\ req' = [req EXCEPT ![r] = IdleReq]
    /\ UNCHANGED <<config, provider_status, hc, agent, orchestration, tm>>

\* ------------------------------------------------------------------------
\* health_check
\* ------------------------------------------------------------------------
IdleHc == [pc |-> "idle", list |-> <<>>, idx |-> 0]

\* health_check(provider): providers_to_check, then the loop up to its first
\* await; an unregistered name gets results[name] = False and is skipped
HealthCheckStart(target) ==
    /\ hc.pc = "idle"
    /\ LET list == IF target = None THEN providers ELSE <<target>>
           j == NextIdx(list, 0, Registered)
       IN  hc' = IF j <= Len(list) THEN [pc |-> "probe", list |-> list, idx |-> j]
                 ELSE IdleHc
    /\ UNCHANGED <<config, provider_status, req, agent, orchestration, tm>>

HcNext == 
    LET j == NextIdx(hc.list, hc.idx, Registered)
    IN  IF j <= Len(hc.list) THEN [hc EXCEPT !.idx = j] ELSE IdleHc

\* status.healthy = healthy; if healthy: status.consecutive_failures = 0
ApplyProbe(status, p, healthy) ==
    [status EXCEPT ![p] =
        [healthy |-> healthy,
         consecutive_failures |-> IF healthy THEN 0 ELSE @.consecutive_failures]]

\* the awaited llm_provider.health_check() returned `healthy`
HealthProbeResult(healthy) ==
    /\ hc.pc = "probe"
    /\ provider_status' = ApplyProbe(provider_status, hc.list[hc.idx], healthy)
    /\ hc' = HcNext
    /\ UNCHANGED <<config, req, agent, orchestration, tm>>

\* the probe raised: results[name] = False, the status is left alone
HealthProbeRaises ==
    /\ hc.pc = "probe"
    /\ hc' = HcNext
    /\ UNCHANGED <<config, provider_status, req, agent, orchestration, tm>>

\* ------------------------------------------------------------------------
\* Tool registry and ToolExecutor
\* ------------------------------------------------------------------------
\* agents/base.py MAX_TOOL_ITERATIONS
MAX_TOOL_ITERATIONS == 5

\* the registry after register_builtin_tools, as far as the agent's tools go:
\* code_execute with its one required parameter
ToolRegistry == {"code_execute"}
ToolParameters(tool) == {[name |-> "code", required |-> TRUE]}

\* message contents are texts; an error text carries its reason
Text(t) == <<t>>
ErrorText(e) == <<"Error: ", e>>

\* arguments are sets of <<name, value>> pairs
Keys(arguments) == {kv[1] : kv \in arguments}
ValueOf(arguments, k) == (CHOOSE kv \in arguments : kv[1] = k)[2]

\* ToolResult
ToolOk(output) == [success |-> TRUE, output |-> output, error |-> None]
ToolFailed(error) == [success |-> FALSE, output |-> None, error |-> error]

\* ToolResult.to_message
ToMessage(result) ==
    IF result.success THEN Text(result.output) ELSE ErrorText(result.error)

\* BaseTool.validate_arguments: required present, then no unknown key
ValidateArguments(tool, arguments) ==
    LET params == ToolParameters(tool)
        missing == {q \in params : q.required /\ q.name \notin Keys(arguments)}
        unknown == {k \in Keys(arguments) : \A q \in params : q.name # k}
    IN  IF missing # {} THEN [valid |-> FALSE, error |-> "missing_required_parameter"]
        ELSE IF unknown # {} THEN [valid |-> FALSE, error |-> "unknown_parameter"]
        ELSE [valid |-> TRUE, error |-> None]

\* what the tool's execute does with valid arguments: it returns its result
\* or raises
ToolBehaviours == {"returns", "raises"}

\* how an awaited call ends: it returns a value or an exception leaves it
Returned(value) == [raised |-> FALSE, value |-> value]
Raised == [raised |-> TRUE, value |-> ToolFailed("raised")]

\* variant: an exception of the tool's execute is not caught
ExecuteToolUncaught(tool_call, behaviour) ==
    IF tool_call.tool_name \notin ToolRegistry
    THEN Returned(ToolFailed("tool_not_found"))
    ELSE LET v == ValidateArguments(tool_call.tool_name, tool_call.arguments)
         IN  IF ~v.valid THEN Returned(ToolFailed(v.error))
             ELSE IF behaviour = "returns"
                  THEN Returned(ToolOk(ValueOf(tool_call.arguments, "code")))
                  ELSE Raised

\* ToolExecutor.execute_tool: not found, invalid arguments, execute's result,
\* or the caught exception as a failed result
ExecuteTool(tool_call, behaviour) ==
    IF tool_call.tool_name \notin ToolRegistry
    THEN Returned(ToolFailed("tool_not_found"))
    ELSE LET v == ValidateArguments(tool_call.tool_name, tool_call.arguments)
         IN  IF ~v.valid THEN Returned(ToolFailed(v.error))
             ELSE IF behaviour = "returns"
                  THEN Returned(ToolOk(ValueOf(tool_call.arguments, "code")))
                  ELSE Returned(ToolFailed("exception_in_execute"))

\* the tool's execute is reached (and its behaviour matters) only past the
\* registry lookup and the validation
ReachesExecute(tool_call) ==
    /\ tool_call.tool_name \in ToolRegistry
    /\ ValidateArguments(tool_call.tool_name, tool_call.arguments).valid

\* ------------------------------------------------------------------------
\* OllamaAgent: the non-streaming tool loop
\* ------------------------------------------------------------------------
\* raw tool calls a model response may carry
CallA == [tool_name |-> "code_execute", arguments |-> {<<"code", "a">>}]
CallB == [tool_name |-> "code_execute", arguments |-> {<<"code", "b">>}]
CallUnknownTool == [tool_name |-> "nonexistent_tool", arguments |-> {}]
CallMissingArg == [tool_name |-> "code_execute", arguments |-> {}]
CallExtraArg ==
    [tool_name |-> "code_execute", arguments |-> {<<"code", "a">>, <<"mode", "x">>}]

\* the responses the model may give: the final answer, or a request for tools
Response(content, tool_calls) ==
    [message |-> [role |-> "assistant", content |-> Text(content), tool_calls |-> tool_calls]]
FinalResponse == Response("done", <<>>)
ToolResponses ==
    { Response("calling", <<CallA>>),
      Response("calling", <<CallB, CallA>>),
      Response("calling", <<CallUnknownTool, CallMissingArg, CallExtraArg>>) }
Responses == {FinalResponse} \cup ToolResponses

\* prior chat histories handed to process_request
Msg(role, content) == [role |-> role, content |-> Text(content), tool_calls |-> <<>>]
Histories == { <<>>, <<Msg("user", "earlier question"), Msg("assistant", "earlier answer")>> }

\* _build_messages: system prompt, history, the new user message
BuildMessages(chat_history) ==
    <<Msg("system", "system prompt")>> \o chat_history \o <<Msg("user", "question")>>

\* _has_tool_calls
HasToolCalls(response) == Len(response.message.tool_calls) > 0

\* variant: the calls are taken in reverse order
ParseToolCallsReversed(response) ==
    LET n == Len(response.message.tool_calls)
    IN  [i \in 1..n |->
            [tool_name |-> response.message.tool_calls[n + 1 - i].tool_name,
             arguments |-> response.message.tool_calls[n + 1 - i].arguments,
             call_id |-> i]]

\* _parse_tool_calls: call_id is the position in the response
ParseToolCalls(response) ==
    [i \in 1..Len(response.message.tool_calls) |->
        [tool_name |-> response.message.tool_calls[i].tool_name,
         arguments |-> response.message.tool_calls[i].arguments,
         call_id |-> i]]

\* pc: "idle", "model" (awaiting self._client.chat), "tool" (awaiting
\* execute_tool of tool_calls[tool_idx]), "done" (returned), "raised".
\* Histories: model_calls counts the calls of self._client.chat, executed lists
\* the executed calls, initial is the conversation the loop began with.
IdleAgent ==
    [pc |-> "idle", messages |-> <<>>, response |-> FinalResponse, iteration |-> 0,
     tool_calls |-> <<>>, tool_idx |-> 0, answer |-> <<>>,
     model_calls |-> 0, executed |-> <<>>, initial |-> <<>>]

\* process_request with streaming off: the messages are built and the first
\* model call is issued
AgentStart(chat_history) ==
    /\ agent.pc = "idle"
    /\ LET messages == BuildMessages(chat_history)
       IN  agent' = [IdleAgent EXCEPT !.pc = "model", !.messages = messages,
                                      !.initial = messages, !.model_calls = 1]
    /\ UNCHANGED <<gateway, orchestration, tm>>

\* variant: the comparison with the cap is not strict
LoopContinuesInclusive(response, iteration) ==
    HasToolCalls(response) /\ iteration <= MAX_TOOL_ITERATIONS

\* the loop condition of _handle_sync_response
LoopContinues(response, iteration) ==
    HasToolCalls(response) /\ iteration < MAX_TOOL_ITERATIONS

\* a model call returned `response`: either the loop body starts (the
\* assistant message is appended, the first tool call is executed) or the
\* content is returned
AgentModelResponse(response) ==
    /\ agent.pc = "model"
    /\ agent' =
         IF LoopContinues(response, agent.iteration)
         THEN [agent EXCEPT !.pc = "tool", !.response = response,
                            !.iteration = @ + 1,
                            !.tool_calls = ParseToolCalls(response),
                            !.tool_idx = 1,
                            !.messages = Append(@, response.message)]
         ELSE [agent EXCEPT !.pc = "done", !.response = response,
                            !.answer = response.message.content]
    /\ UNCHANGED <<gateway, orchestration, tm>>

\* a model call raised: the exception leaves _handle_sync_response
AgentModelRaises ==
    /\ agent.pc = "model"
    /\ agent' = [agent EXCEPT !.pc = "raised"]
    /\ UNCHANGED <<gateway, orchestration, tm>>

\* the awaited execute_tool of tool_calls[tool_idx] ended: its tool message is
\* appended and, after the last call, the next model call is issued; an
\* exception out of execute_tool would leave _handle_sync_response
AgentToolResult(behaviour) ==
    /\ agent.pc = "tool"
    /\ LET call == agent.tool_calls[agent.tool_idx]
           out == ExecuteTool(call, behaviour)
           result == out.value
           last == agent.tool_idx = Len(agent.tool_calls)
       IN  /\ ReachesExecute(call) \/ behaviour = "returns"
           /\ agent' =
                IF out.raised
                THEN [agent EXCEPT !.pc = "raised"]
                ELSE [agent EXCEPT
                  !.messages = Append(@, [role |-> "tool", content |-> ToMessage(result),
                                          tool_calls |-> <<>>]),
                  !.executed = Append(@, [iteration |-> agent.iteration, call |-> call,
                                          behaviour |-> behaviour, result |-> result]),
                  !.tool_idx = IF last THEN 0 ELSE @ + 1,
                  !.pc = IF last THEN "model" ELSE "tool",
                  !.model_calls = IF last THEN @ + 1 ELSE @]
    /\ UNCHANGED <<gateway, orchestration, tm>>

\* the caller has the answer (or the exception); the agent serves the next request
AgentFinish ==
    /\ agent.pc \in {"done", "raised"}
    /\ agent' = IdleAgent
    /\ UNCHANGED <<gateway, orchestration, tm>>

\* ========================================================================
\* Orchestrator: routing of a query to one agent
\* (packages/core/src/orchestrator/supervisor.py, agent_state.py)
\* ========================================================================
\* str.lower() on the letters that occur in agent names and queries
LowerChar(c) ==
    CASE c = "A" -> "a" [] c = "E" -> "e" [] c = "F" -> "f" [] c = "H" -> "h"
      [] c = "I" -> "i" [] c = "K" -> "k" [] c = "P" -> "p" [] c = "S" -> "s"
      [] c = "T" -> "t" [] OTHER -> c

RECURSIVE Lower(_)
Lower(s) ==
    IF Len(s) = 0 THEN ""
    ELSE LowerChar(SubSeq(s, 1, 1)) \o Lower(SubSeq(s, 2, Len(s)))

\* str.strip(): leading and trailing blanks are dropped
RECURSIVE Strip(_)
Strip(s) ==
    IF Len(s) = 0 THEN ""
    ELSE IF SubSeq(s, 1, 1) = " " THEN Strip(SubSeq(s, 2, Len(s)))
    ELSE IF SubSeq(s, Len(s), Len(s)) = " " THEN Strip(SubSeq(s, 1, Len(s) - 1))
    ELSE s

\* `needle in hay` of two strings
Contains(hay, needle) ==
    \E i \in 0..(Len(hay) - Len(needle)) : SubSeq(hay, i + 1, i + Len(needle)) = needle

\* the agents of the blueprint by key (the lower-cased name) ...
AgentKeys ==
    {"supervisor", "kubernetesexpert", "terraformexpert", "pythonexpert",
     "frontendexpert", "systemarchitect"}

\* ... and agent.name, which the metadata event and the return value carry
AgentName(key) ==
    CASE key = "supervisor" -> "Supervisor"
      [] key = "kubernetesexpert" -> "KubernetesExpert"
      [] key = "terraformexpert" -> "TerraformExpert"
      [] key = "pythonexpert" -> "PythonExpert"
      [] key = "frontendexpert" -> "FrontendExpert"
      [] key = "systemarchitect" -> "SystemArchitect"

\* the dict of agents a blueprint was loaded with, in dict order: with and
\* without a supervisor persona
AllAgents ==
    <<"supervisor", "kubernetesexpert", "terraformexpert", "pythonexpert",
      "frontendexpert", "systemarchitect">>
AgentConfigs ==
    { AllAgents,
      <<"pythonexpert", "systemarchitect", "kubernetesexpert", "terraformexpert",
        "frontendexpert">> }

\* self.supervisor_agent, looked up once in __init__ among all agents
SupervisorAgent(all_agents) ==
    IF "supervisor" \in Range(all_agents) THEN "supervisor" ELSE None

\* AgentStateManager.disable_agent / enable_agent on the session's entry
DisabledAfterDisable(d, agent_name) == d \cup {Lower(agent_name)}
DisabledAfterEnable(d, agent_name) == d \ {Lower(agent_name)}

\* variant: the session's disabled set is not consulted
GetEnabledAgentsAll(d, all_agents) == all_agents

\* AgentStateManager.get_enabled_agents: the agents whose key is not disabled,
\* in the order of all_agents
GetEnabledAgents(d, all_agents) ==
    SelectSeq(all_agents, LAMBDA name : Lower(name) \notin d)

\* enabled_collaborators: the enabled agents without the supervisor
EnabledCollaborators(agents_lower) ==
    SelectSeq(agents_lower, LAMBDA k : k # "supervisor")

supervisor_patterns ==
    {"hello", "hi", "hey", "good morning", "good afternoon", "good evening",
     "how are you", "what can you do", "help", "what agents", "list agents",
     "available agents", "who are you", "what is this", "thanks", "thank you"}

\* variant: a pattern matches only the whole query
ShouldSupervisorAnswerWholeQuery(query) ==
    Strip(Lower(query)) \in supervisor_patterns

\* should_supervisor_answer: some pattern is a substring of the query
ShouldSupervisorAnswer(query) ==
    LET query_lower == Strip(Lower(query))
    IN  \E pattern \in supervisor_patterns : Contains(query_lower, pattern)

\* the if / elif chain of explicit agent requests: the key looked up in
\* agents_lower, None when no keyword occurs
ExplicitRequestKey(query) ==
    LET query_lower == Strip(Lower(query))
        AnyOf(words) == \E word \in words : Contains(query_lower, word)
    IN  IF AnyOf({"kubernetes expert", "kubernetesexpert", "k8s expert"})
        THEN "kubernetesexpert"
        ELSE IF AnyOf({"terraform expert", "terraformexpert", "iac expert"})
        THEN "terraformexpert"
        ELSE IF AnyOf({"python expert", "pythonexpert"})
        THEN "pythonexpert"
        ELSE IF AnyOf({"frontend expert", "frontendexpert", "react expert"})
        THEN "frontendexpert"
        ELSE IF AnyOf({"architect", "systemarchitect", "system architect"})
        THEN "systemarchitect"
        ELSE None

\* variant: the key is returned without the lookup in the enabled agents
ExplicitAgentUnfiltered(query, agents_lower) == ExplicitRequestKey(query)

\* explicit_agent = agents_lower.get(key)
ExplicitAgent(query, agents_lower) ==
    LET key == ExplicitRequestKey(query)
    IN  IF key \in Range(agents_lower) THEN key ELSE None

\* What the classifier's model call may produce: a reply text, or an
\* exception of a type the classifier catches ("caught": httpx errors, KeyError,
\* ValueError).
ClassifierReplies ==
    {"KubernetesExpert", "pythonexpert", "The best agent is TerraformExpert.",
     "FrontendExpert", "SystemArchitect", "I am not sure"}
ClassifierOutcomes ==
    [kind : {"reply"}, text : ClassifierReplies] \cup [kind : {"caught"}, text : {""}]

\* variant: the reply is matched against all agents of the blueprint
ClassifyAmongAll(collaborators, outcome) ==
    LET named == {k \in AgentKeys \ {"supervisor"} :
                    Contains(Lower(outcome.text), Lower(AgentName(k)))}
    IN  IF outcome.kind = "reply" /\ named # {}
        THEN [selected |-> CHOOSE k \in named : TRUE, confidence |-> 90]
        ELSE [selected |-> collaborators[1], confidence |-> 20]

\* OllamaSupervisorClassifier.process_request over the agents it was built
\* with: the first agent, in dict order, whose name occurs in the reply; else
\* systemarchitect if it is one of them; else the first agent. confidence is
\* in hundredths.
Classify(collaborators, outcome) ==
    LET matches == {i \in 1..Len(collaborators) :
                      Contains(Lower(outcome.text), Lower(AgentName(collaborators[i])))}
        first == CHOOSE i \in matches : \A j \in matches : i <= j
        has_default == "systemarchitect" \in Range(collaborators)
    IN  IF outcome.kind = "reply"
        THEN IF matches # {}
             THEN [selected |-> collaborators[first], confidence |-> 90]
             ELSE IF has_default
             THEN [selected |-> "systemarchitect", confidence |-> 60]
             ELSE [selected |-> collaborators[1], confidence |-> 40]
        ELSE IF has_default
             THEN [selected |-> "systemarchitect", confidence |-> 30]
             ELSE [selected |-> collaborators[1], confidence |-> 20]

\* The routing decision of process_query_streaming up to its first await:
\* the enabled agents as resolved, the branch taken, the agent selected
\* without a classifier call (None when the classifier decides or nobody
\* answers) and whether the explicit-request lookup was evaluated.
Route(all_agents, d, query) ==
    LET agents_lower == GetEnabledAgents(d, all_agents)
        collaborators == EnabledCollaborators(agents_lower)
        supervisor_agent == SupervisorAgent(all_agents)
        explicit_agent == ExplicitAgent(query, agents_lower)
        decision(branch, selected, lookup) ==
            [branch |-> branch, selected |-> selected, explicit_lookup |-> lookup,
             agents_lower |-> agents_lower, collaborators |-> collaborators]
    IN  IF Len(agents_lower) = 0 THEN decision("no_agents", None, FALSE)
        ELSE IF supervisor_agent = None THEN decision("classifier_fallback", None, FALSE)
        ELSE IF ShouldSupervisorAnswer(query) THEN decision("direct", supervisor_agent, FALSE)
        ELSE IF explicit_agent # None THEN decision("explicit", explicit_agent, TRUE)
        ELSE IF Len(collaborators) = 0 THEN decision("no_collaborators", None, TRUE)
        ELSE decision("classifier", None, TRUE)

\* the queries of the model
Queries ==
    {"hello", "Hi there", "deploy a pod",
     "ask the kubernetes expert about pods", "terraformexpert please",
     "pythonexpert: decorators", "frontendexpert css", "systemarchitect review",
     "kubernetesexpert or pythonexpert"}

\* events of a stream
Ev(type, name) == [type |-> type, agent |-> name]

\* pc: "idle"; "session" (service: awaiting get_session); "classifier"
\* (awaiting the classifier's model call); "agent" (awaiting process_request of
\* the selected agent); "chunks" (iterating the agent's streaming response);
\* "persist" (the wrapper saves the turn); "closed" (the stream has ended).
\* events: what process_query_streaming yielded; sent: what the wrapper
\* delivered to the caller; accumulated: accumulated_response is not empty.
\* cancelled: task.cancel() was called on the task that consumes the stream.
\* Histories: reply is what the classifier's model call came to, agent_outcome
\* how the call of the selected agent ended ("completed": process_request
\* returned and its response was read to the end; "failed": it raised).
NoReply == [kind |-> "none", text |-> ""]

IdleStream ==
    [layer |-> None, pc |-> "idle", query |-> "", agents_lower |-> <<>>,
     collaborators |-> <<>>, branch |-> None, selected |-> None,
     events |-> <<>>, sent |-> <<>>, accumulated |-> FALSE, chunks |-> 0,
     explicit_lookup |-> FALSE, classifier_calls |-> 0, agent_calls |-> 0,
     cancelled |-> FALSE, reply |-> NoReply, agent_outcome |-> None]

\* a chunk yielded by process_query_streaming passes through generate()
Yield(st, ev, nonempty) ==
    [st EXCEPT !.events = Append(@, ev), !.sent = Append(@, ev),
               !.accumulated = @ \/ (ev.type = "content" /\ nonempty)]

\* process_query_streaming is exhausted: generate() persists the turn when
\* there is something to persist, then sends its own done event
GeneratorExhausted(st) ==
    IF st.accumulated
    THEN [st EXCEPT !.pc = "persist"]
    ELSE [st EXCEPT !.sent = Append(@, Ev("done", None)), !.pc = "closed"]

\* an exception left process_query_streaming: generate() catches Exception
GeneratorRaised(st) ==
    [st EXCEPT !.sent = Append(@, Ev("error", None)), !.pc = "closed"]

\* variant: the selected agent is invoked and no metadata event is yielded
AnnounceWithoutMetadata(st, key) ==
    [st EXCEPT !.selected = key, !.pc = "agent", !.agent_calls = @ + 1]

\* the metadata event is yielded and the selected agent is invoked
Announce(st, key) ==
    [Yield(st, Ev("metadata", AgentName(key)), FALSE)
        EXCEPT !.selected = key, !.pc = "agent", !.agent_calls = @ + 1]

\* the stream's task is suspended at one of the awaits `at` and no
\* cancellation is pending: the awaited call's outcome resumes it
Suspended(at) == stream.pc \in at /\ ~stream.cancelled

\* the agents the classifier is built with: the enabled collaborators the
\* invocation resolved at its start
ClassifierAgentsReread(st, d, all_agents) ==
    EnabledCollaborators(GetEnabledAgents(d, all_agents))
ClassifierAgents(st, d, all_agents) == st.collaborators

\* POST /chat/stream: generate() iterates process_query_streaming, which
\* resolves the enabled agents and routes up to its first await
ChatStreamRoute(query) ==
    /\ stream.pc = "idle"
    /\ LET r == Route(agents, disabled, query)
           st == [IdleStream EXCEPT !.layer = "route", !.query = query,
                                    !.agents_lower = r.agents_lower,
                                    !.collaborators = r.collaborators,
                                    !.branch = r.branch,
                                    !.explicit_lookup = r.explicit_lookup]
       IN  stream' =
             CASE r.branch = "no_agents" ->
                    GeneratorExhausted(Yield(st, Ev("error", None), FALSE))
               [] r.branch = "no_collaborators" ->
                    GeneratorExhausted(Yield(st, Ev("error", None), FALSE))
               [] r.branch \in {"direct", "explicit"} -> Announce(st, r.selected)
               [] OTHER -> [st EXCEPT !.pc = "classifier", !.classifier_calls = 1]
    /\ UNCHANGED <<gateway, agent, agents, disabled, handle, tm>>

\* the classifier's model call returned or raised an exception the classifier
\* catches: the selected agent is announced and invoked
ClassifierReturns(outcome) ==
    /\ Suspended({"classifier"})
    /\ stream' = Announce([stream EXCEPT !.reply = outcome],
                          Classify(ClassifierAgents(stream, disabled, agents),
                                   outcome).selected)
    /\ UNCHANGED <<gateway, agent, agents, disabled, handle, tm>>

\* the classifier raised an exception it does not catch: "listed" is one the
\* except clause of process_query_streaming names (AttributeError), "other"
\* any other Exception, which leaves process_query_streaming
ClassifierRaises(kind) ==
    /\ Suspended({"classifier"})
    /\ stream' = IF kind = "listed"
                 THEN GeneratorExhausted(Yield(stream, Ev("error", None), FALSE))
                 ELSE GeneratorRaised(stream)
    /\ UNCHANGED <<gateway, agent, agents, disabled, handle, tm>>

\* process_request returned a ConversationMessage: one content event, done
AgentReturnsMessage(nonempty) ==
    /\ Suspended({"agent"})
    /\ stream' = GeneratorExhausted(
                   Yield(Yield([stream EXCEPT !.agent_outcome = "completed"],
                               Ev("content", None), nonempty),
                         Ev("done", None), FALSE))
    /\ UNCHANGED <<gateway, agent, agents, disabled, handle, tm>>

\* process_request returned an async iterator
AgentReturnsStream ==
    /\ Suspended({"agent"})
    /\ stream' = [stream EXCEPT !.pc = "chunks"]
    /\ UNCHANGED <<gateway, agent, agents, disabled, handle, tm>>

\* the iterator produced a chunk
AgentChunk ==
    /\ Suspended({"chunks"})
    /\ stream.chunks < MaxChunks
    /\ stream' = [Yield(stream, Ev("content", None), TRUE) EXCEPT !.chunks = @ + 1]
    /\ UNCHANGED <<gateway, agent, agents, disabled, handle, tm>>

\* the iterator is exhausted
AgentStreamEnds ==
    /\ Suspended({"chunks"})
    /\ stream' = GeneratorExhausted(
                   Yield([stream EXCEPT !.agent_outcome = "completed"],
                         Ev("done", None), FALSE))
    /\ UNCHANGED <<gateway, agent, agents, disabled, handle, tm>>

\* the agent raised, in process_request or while its response is iterated
AgentRaises(kind) ==
    /\ Suspended({"agent", "chunks"})
    /\ LET st == [stream EXCEPT !.agent_outcome = "failed"]
       IN  stream' = IF kind = "listed"
                     THEN GeneratorExhausted(Yield(st, Ev("error", None), FALSE))
                     ELSE GeneratorRaised(st)
    /\ UNCHANGED <<gateway, agent, agents, disabled, handle, tm>>

\* generate() after the last chunk: save_conversation_turn and the Redis
\* tracking ended ("saved"), raised ClientError / BotoCoreError, which is
\* logged ("persistence_error"), or raised anything else ("other")
PersistOutcome(kind) ==
    /\ Suspended({"persist"})
    /\ stream' = [stream EXCEPT
                    !.sent = Append(@, IF kind = "other" THEN Ev("error", None)
                                                         ELSE Ev("done", None)),
                    !.pc = "closed"]
    /\ UNCHANGED <<gateway, agent, agents, disabled, handle, tm>>

\* ChatService.process_chat_streaming: the session is loaded first
ChatServiceStream(query) ==
    /\ stream.pc = "idle"
    /\ stream' = [IdleStream EXCEPT !.layer = "service", !.query = query,
                                    !.pc = "session"]
    /\ UNCHANGED <<gateway, agent, agents, disabled, handle, tm>>

\* get_session returned: process_query_streaming is called with the keyword
\* knowledge_config, which it does not accept; the TypeError is caught by
\* `except Exception` and becomes the error event
SessionLoaded ==
    /\ Suspended({"session"})
    /\ stream' = [stream EXCEPT !.sent = Append(@, Ev("error", None)),
                                !.pc = "closed"]
    /\ UNCHANGED <<gateway, agent, agents, disabled, handle, tm>>

\* get_session raised: the call is outside the try block
SessionRaises ==
    /\ Suspended({"session"})
    /\ stream' = [stream EXCEPT !.pc = "closed"]
    /\ UNCHANGED <<gateway, agent, agents, disabled, handle, tm>>

\* the awaits of a stream
InFlight == {"session", "classifier", "agent", "chunks", "persist"}

\* task.cancel() is called on the task that consumes the stream while it is
\* suspended (what cancel_task does for a registered task before it returns
\* True); the task is not resumed yet
StreamCancelRequested ==
    /\ Suspended(InFlight)
    /\ stream' = [stream EXCEPT !.cancelled = TRUE]
    /\ UNCHANGED <<gateway, agent, agents, disabled, handle, tm>>

\* the cancelled task is resumed: the await raises CancelledError in place of
\* the awaited outcome. CancelledError is not an Exception, no except clause
\* on its way handles it
StreamCancelled ==
    /\ stream.pc \in InFlight
    /\ stream.cancelled
    /\ stream' = [stream EXCEPT !.pc = "closed"]
    /\ UNCHANGED <<gateway, agent, agents, disabled, handle, tm>>

\* the caller has consumed the stream
StreamFinish ==
    /\ stream.pc = "closed"
    /\ stream' = IdleStream
    /\ UNCHANGED <<gateway, agent, agents, disabled, handle, tm>>

\* pc: "idle", "awaiting" (supervisor_agent.process_request), "returned", "raised"
IdleHandle == [pc |-> "idle", query |-> "", agent |-> None]

\* process_query (POST /chat): without a supervisor persona the fixed answer
\* of "system" is returned, else the supervisor persona is asked
ProcessQuery(query) ==
    /\ handle.pc = "idle"
    /\ handle' = IF SupervisorAgent(agents) = None
                 THEN [pc |-> "returned", query |-> query, agent |-> "system"]
                 ELSE [pc |-> "awaiting", query |-> query, agent |-> None]
    /\ UNCHANGED <<gateway, agent, agents, disabled, stream, tm>>

ProcessQueryReturns ==
    /\ handle.pc = "awaiting"
    /\ handle' = [handle EXCEPT !.pc = "returned",
                                !.agent = AgentName(SupervisorAgent(agents))]
    /\ UNCHANGED <<gateway, agent, agents, disabled, stream, tm>>

ProcessQueryRaises ==
    /\ handle.pc = "awaiting"
    /\ handle' = [handle EXCEPT !.pc = "raised"]
    /\ UNCHANGED <<gateway, agent, agents, disabled, stream, tm>>

HandleFinish ==
    /\ handle.pc \in {"returned", "raised"}
    /\ handle' = IdleHandle
    /\ UNCHANGED <<gateway, agent, agents, disabled, stream, tm>>

\* the toggles of the session's agents
DisableAgent(agent_name) ==
    /\ disabled' = DisabledAfterDisable(disabled, agent_name)
    /\ disabled' # disabled
    /\ UNCHANGED <<gateway, agent, agents, stream, handle, tm>>

EnableAgent(agent_name) ==
    /\ disabled' = DisabledAfterEnable(disabled, agent_name)
    /\ disabled' # disabled
    /\ UNCHANGED <<gateway, agent, agents, stream, handle, tm>>

\* ========================================================================
\* TaskManager (packages/core/src/services/task_manager.py)
\* ========================================================================
Sessions == {"s1", "s2"}
\* the asyncio tasks of the model, created in this order
Tasks == {"t1", "t2", "t3"}
Older(t) == CASE t = "t1" -> {} [] t = "t2" -> {"t1"} [] t = "t3" -> {"t1", "t2"}

\* tasks: _tasks, None where the dict has no entry.
\* state: "new" (not created), "running", "cancelling" (task.cancel() was
\* called, the CancelledError is not yet delivered), "done".
\* outcome: how a done task ended. registered: the session_id captured by the
\* task's done-callback. callbacks: the done tasks whose callback the event
\* loop has scheduled (call_soon) and not yet run. cleaned: how often the
\* callback of a task ran.
\* Histories: latest is the task registered last for a session, calls counts
\* the cancel_task calls, log holds the cancel_task calls made in a row, that
\* is with no other step in between, requested the sessions for which
\* cancel_task has returned True.
IdleTm ==
    [tasks |-> [s \in Sessions |-> None],
     state |-> [t \in Tasks |-> "new"],
     outcome |-> [t \in Tasks |-> None],
     registered |-> [t \in Tasks |-> None],
     callbacks |-> {},
     cleaned |-> [t \in Tasks |-> 0],
     latest |-> [s \in Sessions |-> None],
     calls |-> 0,
     log |-> <<>>,
     requested |-> {}]

\* task.done()
TaskDoneNever(state, t) == FALSE
TaskDone(state, t) == state[t] = "done"

\* variant: the entry is kept
CleanupTaskKeeps(tasks, session_id) == tasks

\* _cleanup_task
CleanupTask(tasks, session_id) ==
    IF tasks[session_id] # None THEN [tasks EXCEPT ![session_id] = None] ELSE tasks

\* get_active_count
GetActiveCount(tasks) == Cardinality({s \in Sessions : tasks[s] # None})

\* is_active
IsActive(tasks, state, session_id) ==
    tasks[session_id] # None /\ ~TaskDone(state, tasks[session_id])

\* asyncio.create_task followed by register_task(session_id, task): the entry
\* of the session is overwritten and the done-callback is attached
RegisterTask(session_id, task) ==
    /\ tm.state[task] = "new"
    /\ \A o \in Older(task) : tm.state[o] # "new"
    /\ tm' = [tm EXCEPT !.tasks[session_id] = task,
                        !.state[task] = "running",
                        !.registered[task] = session_id,
                        !.latest[session_id] = task,
                        !.log = <<>>]
    /\ UNCHANGED <<gateway, agent, orchestration>>

\* the last two calls made in a row
Logged(log, entry) ==
    IF Len(log) < 2 THEN Append(log, entry) ELSE <<log[2], entry>>

\* variant: the task of some session is looked up
TaskOfAny(tasks, session_id) ==
    IF \E s \in Sessions : tasks[s] # None
    THEN tasks[CHOOSE s \in Sessions : tasks[s] # None]
    ELSE None

\* self._tasks.get(session_id)
TaskOf(tasks, session_id) == tasks[session_id]

\* cancel_task(session_id)
CancelTask(session_id) ==
    /\ tm.calls < MaxCancels
    /\ LET task == TaskOf(tm.tasks, session_id)
           entry(result) == [session |-> session_id, result |-> result]
       IN  tm' =
             IF task = None
             THEN [tm EXCEPT !.calls = @ + 1, !.log = Logged(@, entry(FALSE))]
             ELSE IF TaskDone(tm.state, task)
             THEN [tm EXCEPT !.tasks = CleanupTask(@, session_id),
                             !.calls = @ + 1, !.log = Logged(@, entry(FALSE))]
             ELSE [tm EXCEPT !.state[task] = "cancelling",
                             !.calls = @ + 1, !.log = Logged(@, entry(TRUE)),
                             !.requested = @ \cup {session_id}]
    /\ UNCHANGED <<gateway, agent, orchestration>>

\* the task ends: it returns or raises at any time, it ends cancelled when a
\* cancellation was requested; the event loop schedules its done-callback
TaskEnds(task, outcome) ==
    /\ tm.state[task] \in {"running", "cancelling"}
    /\ outcome = "cancelled" => tm.state[task] = "cancelling"
    /\ tm' = [tm EXCEPT !.state[task] = "done",
                        !.outcome[task] = outcome,
                        !.callbacks = @ \cup {task},
                        !.log = <<>>]
    /\ UNCHANGED <<gateway, agent, orchestration>>

\* the task catches the CancelledError and goes on
TaskSuppressesCancel(task) ==
    /\ tm.state[task] = "cancelling"
    /\ tm' = [tm EXCEPT !.state[task] = "running", !.log = <<>>]
    /\ UNCHANGED <<gateway, agent, orchestration>>

\* the event loop runs the done-callback of the task:
\* _cleanup_task(session_id) with the session_id the lambda captured
RunDoneCallback(task) ==
    /\ task \in tm.callbacks
    /\ tm' = [tm EXCEPT !.tasks = CleanupTask(@, tm.registered[task]),
                        !.callbacks = @ \ {task},
                        !.cleaned[task] = @ + 1,
                        !.log = <<>>]
    /\ UNCHANGED <<gateway, agent, orchestration>>

\* ------------------------------------------------------------------------
\* Specifications of the gateway
\* ------------------------------------------------------------------------
Hints == Names \cup {None}

\* SupervisorOrchestrator(agents) over the blueprint's agents; no agent is
\* disabled, no request is in progress, no task is registered
InitOrchestration(all_agents) ==
    /\ agents = all_agents
    /\ disabled = {}
    /\ stream = IdleStream
    /\ handle = IdleHandle
    /\ tm = IdleTm

InitGateway(cfg) ==
    /\ providers = cfg.providers
    /\ provider_status = [p \in Range(cfg.providers) |-> ProviderStatus]
    /\ fallback_chain = cfg.chain
    /\ fallback_enabled = cfg.fallback
    /\ req = [r \in Req |-> IdleReq]
    /\ hc = IdleHc
    /\ agent = IdleAgent

InitWith(cfg) == InitGateway(cfg) /\ InitOrchestration(AllAgents)

GatewayStep(r, track) ==
    \/ ChatResponse(r)
    \/ ChatTimeout(r)
    \/ ChatRetriableError(r)
    \/ ChatNonRetriableError(r)
    \/ ChatException(r)
    \/ StreamChunk(r, track)
    \/ StreamEnd(r)
    \/ StreamRetriableError(r)
    \/ StreamNonRetriableError(r)
    \/ StreamException(r)
    \/ Finish(r)

\* concurrent callers: un-hinted calls and probes interleave at their awaits
Init == \E cfg \in ConcurrentConfigs : InitWith(cfg)

Next ==
    \/ \E r \in Req : ChatStart(r, None, FALSE)
    \/ \E r \in Req : StreamStart(r, None, FALSE)
    \/ \E r \in Req : GatewayStep(r, FALSE)
    \/ \E t \in Hints : HealthCheckStart(t)
    \/ \E b \in BOOLEAN : HealthProbeResult(b)
    \/ HealthProbeRaises

Spec == Init /\ [][Next]_vars

\* one call at a time: a call or a health check begins only when nothing else
\* is in progress
Quiet == hc.pc = "idle" /\ \A r \in Req : req[r].pc = "idle"

InitSerial == \E cfg \in SerialConfigs : InitWith(cfg)

NextSerial ==
    \/ \E r \in Req, h \in Hints : Quiet /\ ChatStart(r, h, TRUE)
    \/ \E r \in Req, h \in Hints : Quiet /\ StreamStart(r, h, TRUE)
    \/ \E r \in Req : GatewayStep(r, TRUE)
    \/ \E t \in Hints : Quiet /\ HealthCheckStart(t)
    \/ \E b \in BOOLEAN : HealthProbeResult(b)
    \/ HealthProbeRaises

SpecSerial == InitSerial /\ [][NextSerial]_vars

\* one call at a time, against providers that may never answer
NextDeadline ==
    \/ NextSerial
    \/ \E r \in Req : ProviderNeverAnswers(r)

SpecDeadline == InitSerial /\ [][NextDeadline]_vars

\* ------------------------------------------------------------------------
\* Specification of the agent's tool loop
\* ------------------------------------------------------------------------
NextAgent ==
    \/ \E h \in Histories : AgentStart(h)
    \/ \E response \in Responses : AgentModelResponse(response)
    \/ AgentModelRaises
    \/ \E b \in ToolBehaviours : AgentToolResult(b)
    \/ AgentFinish

SpecAgent == Init /\ [][NextAgent]_vars

\* ------------------------------------------------------------------------
\* Specification of the orchestrator: requests are served one at a time and
\* the agents are toggled between requests
\* ------------------------------------------------------------------------
OrchQuiet == stream.pc = "idle" /\ handle.pc = "idle"

InitRouter ==
    \E cfg \in ConcurrentConfigs, all_agents \in AgentConfigs :
        InitGateway(cfg) /\ InitOrchestration(all_agents)

NextRouter ==
    \/ \E q \in Queries : OrchQuiet /\ ChatStreamRoute(q)
    \/ \E o \in ClassifierOutcomes : ClassifierReturns(o)
    \/ \E k \in {"listed", "other"} : ClassifierRaises(k)
    \/ \E n \in BOOLEAN : AgentReturnsMessage(n)
    \/ AgentReturnsStream
    \/ AgentChunk
    \/ AgentStreamEnds
    \/ \E k \in {"listed", "other"} : AgentRaises(k)
    \/ \E k \in {"saved", "persistence_error", "other"} : PersistOutcome(k)
    \/ \E q \in Queries : OrchQuiet /\ ChatServiceStream(q)
    \/ SessionLoaded
    \/ SessionRaises
    \/ StreamCancelRequested
    \/ StreamCancelled
    \/ StreamFinish
    \/ \E q \in Queries : OrchQuiet /\ ProcessQuery(q)
    \/ ProcessQueryReturns
    \/ ProcessQueryRaises
    \/ HandleFinish
    \/ \E k \in AgentKeys : OrchQuiet /\ DisableAgent(AgentName(k))
    \/ \E k \in AgentKeys : OrchQuiet /\ EnableAgent(AgentName(k))

SpecRouter == InitRouter /\ [][NextRouter]_vars

\* ------------------------------------------------------------------------
\* Specification of the orchestrator with concurrent toggles: the agents of
\* the session are enabled and disabled at any time, also while a streaming
\* invocation is suspended
\* ------------------------------------------------------------------------
ToggleKeys == {"supervisor", "pythonexpert", "systemarchitect"}
ToggleQueries == {"hello", "deploy a pod", "pythonexpert: decorators"}

NextToggle ==
    \/ \E q \in ToggleQueries : ChatStreamRoute(q)
    \/ \E o \in ClassifierOutcomes : ClassifierReturns(o)
    \/ \E k \in {"listed", "other"} : ClassifierRaises(k)
    \/ \E n \in BOOLEAN : AgentReturnsMessage(n)
    \/ AgentReturnsStream
    \/ AgentChunk
    \/ AgentStreamEnds
    \/ \E k \in {"listed", "other"} : AgentRaises(k)
    \/ \E k \in {"saved", "persistence_error", "other"} : PersistOutcome(k)
    \/ StreamCancelRequested
    \/ StreamCancelled
    \/ StreamFinish
    \/ \E k \in ToggleKeys : DisableAgent(AgentName(k))
    \/ \E k \in ToggleKeys : EnableAgent(AgentName(k))

SpecToggle == InitRouter /\ [][NextToggle]_vars

\* ------------------------------------------------------------------------
\* Specification of the task manager; the event loop runs every scheduled
\* done-callback
\* ------------------------------------------------------------------------
NextTasks ==
    \/ \E s \in Sessions, t \in Tasks : RegisterTask(s, t)
    \/ \E s \in Sessions : CancelTask(s)
    \/ \E t \in Tasks, o \in {"returned", "raised", "cancelled"} : TaskEnds(t, o)
    \/ \E t \in Tasks : TaskSuppressesCancel(t)
    \/ \E t \in Tasks : RunDoneCallback(t)

SpecTasks == Init /\ [][NextTasks]_vars

SpecTasksFair == SpecTasks /\ WF_vars(\E t \in Tasks : RunDoneCallback(t))

\* ========================================================================
\* Properties of the gateway
\* ========================================================================
Failures(p) == provider_status[p].consecutive_failures
Healthy(p) == provider_status[p].healthy
Last(seq) == seq[Len(seq)]

\* the call of r has ended
Ended(r, op) == req[r].pc = "done" /\ req[r].op = op

\* this step, a call's provider p answered
SuccessOn(p) ==
    \E r \in Req : /\ req[r].pc = "await" /\ Current(r) = p
                   /\ req'[r].pc = "done" /\ req'[r].result.kind = "ok"

\* this step, a call's provider p failed (the call moved on or raised)
FailureOn(p) ==
    \E r \in Req : /\ req[r].pc = "await" /\ Current(r) = p
                   /\ \/ req'[r].pc = "await" /\ req'[r].idx > req[r].idx
                      \/ req'[r].pc = "done" /\ req'[r].result.kind = "raised"

\* this step, the health probe of p ended
ProbeOf(p) == hc.pc = "probe" /\ hc.list[hc.idx] = p /\ hc' # hc

\* p is left out of the healthy providers computed from `status`
Excluded(status, p) ==
    p \notin Range(GetHealthyProviders(status, providers, fallback_chain))

\* the chain restricted to the providers healthy when the call of r began
HealthyChainAtStart(r) ==
    LET WasHealthy(p) == req[r].base[p].healthy
    IN  SelectSeq(fallback_chain, WasHealthy)

\* C1: an un-hinted chat with fallback enabled that ends with a response, after
\* its first K candidates failed and candidate K+1 answered, returns the
\* response of candidate K+1 and has raised the consecutive_failures of each of
\* the K failed providers by exactly 1; the candidates are the healthy part of
\* the fallback chain, in chain order.
C1_FailoverCounts ==
    \A r \in Req :
        (Ended(r, "chat") /\ req[r].hint = None /\ fallback_enabled
            /\ req[r].result.kind = "ok")
        => LET c == req[r].contacted
               k == Len(c) - 1
           IN  /\ 0 <= k /\ k < Len(providers)
               /\ req[r].result.from = c[k + 1]
               /\ \A i \in 1..k :
                     Failures(c[i]) = req[r].base[c[i]].consecutive_failures + 1
               /\ HealthyChainAtStart(r) # <<>>
                     => c = SubSeq(HealthyChainAtStart(r), 1, k + 1)

\* two providers failed, the third answered, and a failed one had failed before
C1_Witness ==
    \E r \in Req :
        /\ Ended(r, "chat") /\ req[r].hint = None /\ fallback_enabled
        /\ req[r].result.kind = "ok"
        /\ Len(req[r].contacted) = 3
        /\ req[r].base[req[r].contacted[1]].consecutive_failures = 1

C2_Step ==
    \A p \in Registered :
        /\ provider_status'[p].consecutive_failures >= max_failures_before_unhealthy
              => Excluded(provider_status', p)
        /\ (Excluded(provider_status, p) /\ ~Excluded(provider_status', p))
              => /\ provider_status'[p].consecutive_failures = 0
                 /\ SuccessOn(p) \/ ProbeOf(p)
        /\ (Failures(p) >= max_failures_before_unhealthy
              /\ provider_status'[p].consecutive_failures = 0)
              => ~Excluded(provider_status', p)
        /\ \A r \in Req :
              (req[r].pc = "idle" /\ req'[r].pc = "await" /\ req'[r].hint = None
                  /\ Failures(p) >= max_failures_before_unhealthy
                  /\ \E q \in Registered : ~Excluded(provider_status, q))
              => p \notin Range(req'[r].order)

\* C2: a provider whose consecutive_failures has reached
\* max_failures_before_unhealthy is left out of _get_healthy_providers, and of
\* the try-order of every un-hinted call that begins while another provider is
\* healthy; it comes back only in a step that is a success on it (a request or
\* a health probe) and resets its counter to 0, and that step brings it back.
C2_ExcludedUntilSuccess == [][C2_Step]_vars

\* a call that began after primary reached the threshold tries backup alone
C2_Witness ==
    \E r \in Req :
        /\ req[r].pc = "await" /\ req[r].hint = None
        /\ req[r].order = <<"backup">>
        /\ Failures("primary") >= max_failures_before_unhealthy

\* C3 as stated: a provider is unhealthy only when its counter has reached the
\* threshold.
C3_UnhealthyImpliesThreshold ==
    \A p \in Registered :
        ~Healthy(p) => Failures(p) >= max_failures_before_unhealthy

C3_Step ==
    \A p \in Registered :
        /\ SuccessOn(p)
              => /\ provider_status'[p].consecutive_failures = 0
                 /\ provider_status'[p].healthy
        /\ ProbeOf(p)
              => \/ provider_status'[p] = provider_status[p]
                 \/ provider_status'[p] = [healthy |-> TRUE, consecutive_failures |-> 0]
                 \/ provider_status'[p] =
                        [healthy |-> FALSE, consecutive_failures |-> Failures(p)]
        /\ (Healthy(p) /\ ~provider_status'[p].healthy)
              => \/ /\ FailureOn(p)
                    /\ provider_status'[p].consecutive_failures
                          >= max_failures_before_unhealthy
                 \/ ProbeOf(p)
        /\ (FailureOn(p) /\ provider_status'[p].consecutive_failures
                                < max_failures_before_unhealthy)
              => provider_status'[p].healthy = Healthy(p)

\* C3 (amended): a success on p (a request or a health probe) leaves its
\* counter 0 and p healthy; p turns unhealthy only in a failure that brings the
\* counter to the threshold or in a health probe of p, which leaves the
\* counter as it was.
C3_UnhealthyByThresholdOrProbe == [][C3_Step]_vars

\* a provider that a probe reported unhealthy, its counter below the threshold
C3_Witness ==
    \E p \in Registered :
        /\ ~Healthy(p)
        /\ Failures(p) > 0
        /\ Failures(p) < max_failures_before_unhealthy

\* C4: within one chat_stream call, no provider is contacted after a chunk was
\* yielded, so every chunk the caller receives comes from one provider.
C4_NoFailoverAfterFirstChunk ==
    \A r \in Req :
        (req[r].op = "chat_stream" /\ req[r].received # <<>>)
        => /\ Cardinality(Range(req[r].received)) = 1
           /\ Last(req[r].contacted) = req[r].received[1]

\* C5: a non-retriable ProviderError ends the call of chat or chat_stream at
\* once: no call is still in its loop after one, and the call raises that
\* error from the provider contacted last.
C5_NonRetriableAborts ==
    \A r \in Req :
        /\ req[r].pc = "await" => req[r].last_error # "non_retriable"
        /\ (req[r].pc = "done" /\ req[r].result.error = "non_retriable")
              => /\ req[r].result.kind = "raised"
                 /\ req[r].result.from = Last(req[r].contacted)

\* a non-retriable error raised by the first of several candidates
C5_Witness ==
    \E r \in Req :
        /\ req[r].pc = "done" /\ req[r].result.error = "non_retriable"
        /\ req[r].hint = None /\ fallback_enabled
        /\ Len(req[r].contacted) = 1
        /\ Len(HealthyChainAtStart(r)) >= 2

\* C6: with a provider hint only the hinted provider is contacted, and its
\* failure is what the call raises, whatever the fallback setting and the
\* health of the other providers.
C6_HintMeansNoFallback ==
    \A r \in Req :
        req[r].hint # None
        => /\ Len(req[r].contacted) <= 1
           /\ Range(req[r].contacted) \subseteq {req[r].hint}
           /\ (req[r].pc = "done" /\ req[r].hint \in Registered)
                 => /\ req[r].contacted = <<req[r].hint>>
                    /\ req[r].result.from = req[r].hint
                    /\ req[r].result.kind = "raised"
                          => req[r].result.error \in
                                {"timeout", "retriable", "non_retriable", "exception"}
           /\ (req[r].pc = "done" /\ req[r].hint \notin Registered)
                 => /\ req[r].contacted = <<>>
                    /\ req[r].result.error = "no_providers"

\* the hinted backup failed retriably while fallback was enabled and primary
\* was healthy
C6_Witness ==
    \E r \in Req :
        /\ req[r].pc = "done" /\ req[r].hint = "backup" /\ fallback_enabled
        /\ req[r].result.kind = "raised" /\ req[r].result.error = "retriable"
        /\ Healthy("primary")
        /\ "primary" \in Range(fallback_chain)

C7_Step ==
    \A p \in Registered :
        FailureOn(p)
        => /\ provider_status'[p].consecutive_failures = Failures(p) + 1
           /\ provider_status'[p].consecutive_failures >= max_failures_before_unhealthy
                 => ~provider_status'[p].healthy

\* C7: with calls in flight together, every failure raises the provider's
\* counter by exactly 1 and flips healthy in the same step when the threshold
\* is reached: no state has a counter at the threshold with healthy still true.
C7_AtomicFailureRecording ==
    /\ [](\A p \in Registered :
            Failures(p) >= max_failures_before_unhealthy => ~Healthy(p))
    /\ [][C7_Step]_vars

\* two calls in flight have both failed on primary, which reached the threshold
C7_Witness ==
    /\ \A r \in Req : /\ req[r].pc = "await" /\ req[r].idx = 2
                      /\ req[r].order = <<"primary", "backup">>
                      /\ req[r].last_error # None
    /\ Failures("primary") = max_failures_before_unhealthy
    /\ ~Healthy("primary")

\* ========================================================================
\* Properties of the agent's tool loop
\* ========================================================================
IsPrefix(a, b) == Len(a) <= Len(b) /\ SubSeq(b, 1, Len(a)) = a

ToolMessageCount == Cardinality({i \in 1..Len(agent.messages) : agent.messages[i].role = "tool"})

\* the loop ended because of the cap: the last response still asks for tools
EndedAtCap == agent.pc = "done" /\ HasToolCalls(agent.response)

\* C8 as stated: the loop makes at most cap model calls, and exactly cap when
\* every response requests another tool call.
C8_CapModelCalls ==
    /\ agent.model_calls <= MAX_TOOL_ITERATIONS
    /\ EndedAtCap => agent.model_calls = MAX_TOOL_ITERATIONS

\* C8 (amended): the loop runs at most cap tool rounds, each followed by one
\* model call, so at most cap + 1 model calls are made; when every response
\* requests another tool call it ends after exactly cap rounds and cap + 1
\* model calls, with no further call, returning the last response's content.
C8_CapToolRounds ==
    /\ agent.iteration <= MAX_TOOL_ITERATIONS
    /\ agent.model_calls <= MAX_TOOL_ITERATIONS + 1
    /\ agent.pc \in {"model", "done"} => agent.model_calls = agent.iteration + 1
    /\ agent.pc = "tool" => agent.model_calls = agent.iteration
    /\ agent.pc = "done" => agent.answer = agent.response.message.content
    /\ EndedAtCap => /\ agent.iteration = MAX_TOOL_ITERATIONS
                     /\ agent.model_calls = MAX_TOOL_ITERATIONS + 1

\* every response asked for tools and the loop stopped at the cap
C8_Witness ==
    /\ EndedAtCap
    /\ agent.model_calls = MAX_TOOL_ITERATIONS + 1
    /\ agent.answer = Text("calling")

\* the round in progress (pc = "tool") or just finished (pc = "model"): the
\* conversation ends with the assistant's tool-call message and one tool
\* message per call executed so far, in request order
C9_RoundInOrder ==
    (agent.pc \in {"tool", "model"} /\ agent.iteration >= 1)
    => LET calls == agent.response.message.tool_calls
           n == IF agent.pc = "tool" THEN agent.tool_idx - 1 ELSE Len(calls)
           before == Len(agent.messages) - n - 1
       IN  /\ before >= Len(agent.initial)
           /\ agent.messages[before + 1] = agent.response.message
           /\ Len(agent.executed) >= n
           /\ \A i \in 1..n :
                 LET m == agent.messages[before + 1 + i]
                     e == agent.executed[Len(agent.executed) - n + i]
                 IN  /\ m.role = "tool"
                     /\ e.iteration = agent.iteration
                     /\ e.call.call_id = i
                     /\ e.call.tool_name = calls[i].tool_name
                     /\ e.call.arguments = calls[i].arguments
                     /\ m.content = ToMessage(e.result)
                     /\ e.result.success
                           => m.content = Text(ValueOf(calls[i].arguments, "code"))

C9_Invariant ==
    /\ C9_RoundInOrder
    /\ IsPrefix(agent.initial, agent.messages)
    /\ ToolMessageCount = Len(agent.executed)
    /\ (agent.pc = "done" /\ agent.iteration = 1 /\ Len(agent.tool_calls) = 1
           /\ ~HasToolCalls(agent.response))
          => /\ agent.answer = Text("done")
             /\ ToolMessageCount = 1

C9_Step ==
    (agent.pc # "idle" /\ agent'.pc # "idle")
    => /\ IsPrefix(agent.messages, agent'.messages)
       /\ Len(agent'.messages) <= Len(agent.messages) + 1

\* C9: in a round whose response requests c1..cn the tools run one after the
\* other in request order and the conversation gains the assistant's tool-call
\* message, then one tool-role message per call, the result of ci at position
\* i; the conversation only grows at its end; one tool call followed by the
\* tool-free response "done" gives the answer "done" and one tool message.
C9_ToolOrderAppendOnly == []C9_Invariant /\ [][C9_Step]_vars

\* a round of two calls (b, then a) and a round of one call were run on top
\* of a prior history, and the tool-free response "done" ended the loop
C9_Witness ==
    /\ agent.pc = "done" /\ agent.iteration = 2
    /\ agent.answer = Text("done")
    /\ Len(agent.initial) = 4
    /\ agent.messages[6].content = Text("b")
    /\ agent.messages[7].content = Text("a")
    /\ Len(agent.tool_calls) = 1

\* the call cannot succeed: unknown tool, invalid arguments, or execute raises
ToolError(e) ==
    \/ ~ReachesExecute(e.call)
    \/ e.behaviour = "raises"

C10_Invariant ==
    /\ \A i \in 1..Len(agent.executed) :
          ToolError(agent.executed[i]) => ~agent.executed[i].result.success
    /\ agent.pc = "raised" => agent.model_calls = agent.iteration + 1

C10_Step ==
    agent.pc = "tool"
    => /\ agent'.pc \in {"tool", "model"}
       /\ Len(agent'.executed) = Len(agent.executed) + 1
       /\ agent'.messages =
             Append(agent.messages,
                    [role |-> "tool",
                     content |-> ToMessage(Last(agent'.executed).result),
                     tool_calls |-> <<>>])
       /\ agent'.pc = "model" => agent'.model_calls = agent.model_calls + 1

\* C10: an unknown tool, arguments that fail validation and an exception of
\* the tool's execute each give a ToolResult with success = false; the loop
\* appends it as a tool-role message and goes on to its next tool or model
\* call; the loop raises only out of a model call.
C10_ToolErrorsRecovered == []C10_Invariant /\ [][C10_Step]_vars

\* all four kinds of tool error were fed back and the next model call issued
C10_Witness ==
    /\ agent.pc = "model"
    /\ \A err \in {"tool_not_found", "missing_required_parameter",
                   "unknown_parameter", "exception_in_execute"} :
          \E i \in 1..Len(agent.executed) :
              /\ ~agent.executed[i].result.success
              /\ agent.executed[i].result.error = err

\* ========================================================================
\* Properties of the agent loop and the gateway together
\* ========================================================================
\* C11: every model call of the agent's tool loop goes through the gateway:
\* a failure of a model call is counted in the ProviderStatus of the provider
\* that failed (and the next candidate is tried), so a loop that ended with a
\* failed model call has left a counted failure behind.
C11_ModelFailureCountedByGateway ==
    agent.pc = "raised" => \E p \in Registered : Failures(p) > 0

\* ========================================================================
\* Properties of the orchestrator
\* ========================================================================
Terminal == {"done", "error", "cancelled"}
Specialists == AgentKeys \ {"supervisor"}
Started == stream.layer = "route" /\ stream.pc # "idle"
Enabled == Range(stream.agents_lower)
Metadata == {i \in 1..Len(stream.events) : stream.events[i].type = "metadata"}

\* C12: on every routing branch and for every enabled set, the agent named in
\* the metadata event, which is the agent invoked, is a member of the enabled
\* set resolved at the start of the invocation.
C12_AnnouncedAgentIsEnabled ==
    Started =>
       /\ \A i \in Metadata : Lower(stream.events[i].agent) \in Enabled
       /\ stream.selected # None => stream.selected \in Enabled

\* C13: a query that contains the keyword of a specialist is answered by that
\* specialist without a classifier call when the specialist is enabled, and
\* goes to the classifier over the enabled collaborators when it is not.
C13_ExplicitRequestRouted ==
    Started =>
       \A k \in Specialists :
          Contains(Lower(stream.query), k) =>
             IF k \in Enabled
             THEN /\ stream.selected = k
                  /\ stream.classifier_calls = 0
             ELSE /\ stream.classifier_calls = 1 \/ stream.collaborators = <<>>
                  /\ stream.selected # None => stream.selected \in Range(stream.collaborators)

\* queries that match a direct-answer pattern
DirectQueries == {"hello", "Hi there"}

\* C14: with the supervisor in the enabled set, a query matching the
\* direct-answer patterns is answered by the supervisor persona: the metadata
\* event names the supervisor, and neither the explicit-request lookup nor the
\* classifier call is made.
C14_DirectAnswerBySupervisor ==
    (Started /\ stream.query \in DirectQueries /\ "supervisor" \in Enabled)
    => /\ stream.branch = "direct"
       /\ stream.selected = "supervisor"
       /\ stream.events[1] = Ev("metadata", AgentName("supervisor"))
       /\ Cardinality(Metadata) = 1
       /\ ~stream.explicit_lookup
       /\ stream.classifier_calls = 0

\* the supervisor answered "Hi there" and the stream ended with done, while
\* two specialists were disabled
C14_Witness ==
    /\ stream.layer = "route" /\ stream.pc = "closed"
    /\ stream.query = "Hi there"
    /\ stream.branch = "direct"
    /\ Enabled = AgentKeys \ {"pythonexpert", "systemarchitect"}
    /\ stream.events = <<Ev("metadata", "Supervisor"), Ev("content", None),
                         Ev("done", None)>>

\* the agents process_query_streaming can announce for the query in the
\* current enablement state, over all outcomes of the classifier
Announceable(query) ==
    LET r == Route(agents, disabled, query)
    IN  IF r.selected # None THEN {AgentName(r.selected)}
        ELSE IF r.branch \in {"classifier", "classifier_fallback"}
        THEN {AgentName(Classify(r.collaborators, o).selected) : o \in ClassifierOutcomes}
        ELSE {}

\* C15: the agent named in the return value of process_query is the router's
\* selection, the agent process_query_streaming would announce for the same
\* query and enablement state.
C15_HandleAnswersAsRouter ==
    handle.pc = "returned" => handle.agent \in Announceable(handle.query)

\* C16: every stream of a streaming request ends with a done, error or
\* cancelled event, whatever happened during the invocation.
C16_StreamEndsWithTerminalEvent ==
    stream.pc = "closed"
    => /\ Len(stream.sent) > 0
       /\ Last(stream.sent).type \in Terminal

\* ========================================================================
\* Properties of the task manager
\* ========================================================================
Running(t) == tm.state[t] \in {"running", "cancelling"}

\* C17: two cancel_task calls in a row for a session with a running
\* registered task return True, then False.
C17_SecondCancelReturnsFalse ==
    (/\ Len(tm.log) = 2
     /\ tm.log[1].session = tm.log[2].session
     /\ tm.log[1].result)
    => ~tm.log[2].result

\* C18: the task registered last for a session keeps the session's handle
\* while it runs, whatever happens to a task it replaced.
C18_ReplacementKeepsHandle ==
    \A s \in Sessions :
       (tm.latest[s] # None /\ Running(tm.latest[s])) => tm.tasks[s] = tm.latest[s]

C19_Step ==
    tm'.calls = tm.calls + 1
    => LET e == Last(tm'.log)
           s == e.session
           t == tm.tasks[s]
           live == t # None /\ Running(t)
       IN  /\ e.result = live
           /\ live => /\ tm'.state = [tm.state EXCEPT ![t] = "cancelling"]
                      /\ tm'.tasks = tm.tasks
           /\ ~live => /\ tm'.state = tm.state
                       /\ tm'.tasks[s] = None
                       /\ \A o \in Sessions \ {s} : tm'.tasks[o] = tm.tasks[o]

\* C19: cancel_task(session) returns True exactly when the registry holds a
\* task for the session and the task has not finished, and then cancellation
\* is signalled to that task; otherwise it returns False, signals nothing and
\* leaves no entry for the session.
C19_CancelReturnsWhetherLive == [][C19_Step]_vars

\* in a row: cancel_task found the finished task of s1, whose done-callback
\* had not run yet, and removed its entry; cancel_task of s2 signalled the
\* running task of s2
C19_Witness ==
    /\ tm.log = <<[session |-> "s1", result |-> FALSE],
                  [session |-> "s2", result |-> TRUE]>>
    /\ tm.latest["s1"] \in tm.callbacks
    /\ tm.tasks["s1"] = None
    /\ tm.tasks["s2"] # None /\ tm.state[tm.tasks["s2"]] = "cancelling"

Quiesced == tm.callbacks = {} /\ \A t \in Tasks : tm.state[t] \in {"new", "done"}
CleanedUp(t) ==
    /\ t \notin tm.callbacks
    /\ tm.registered[t] # None
    /\ tm.tasks[tm.registered[t]] # t

C20_Invariant ==
    /\ \A t \in Tasks : tm.cleaned[t] <= 1
    /\ \A t \in Tasks : (tm.state[t] = "done" /\ t \notin tm.callbacks)
                           => tm.cleaned[t] = 1 /\ CleanedUp(t)
    /\ \A s \in Sessions :
          CleanupTask(CleanupTask(tm.tasks, s), s) = CleanupTask(tm.tasks, s)
    /\ Quiesced => /\ GetActiveCount(tm.tasks) = 0
                   /\ \A s \in Sessions : ~IsActive(tm.tasks, tm.state, s)

C20_Step ==
    \A t \in Tasks :
       tm'.cleaned[t] = tm.cleaned[t] + 1
       => LET s == tm.registered[t]
          IN  /\ tm'.tasks[s] = None
              /\ GetActiveCount(tm'.tasks) =
                    GetActiveCount(tm.tasks) - (IF tm.tasks[s] # None THEN 1 ELSE 0)

\* C20: when a registered task ends (returned, raised or cancelled) its
\* done-callback eventually runs, without any explicit call, and the task's
\* handle is gone from the registry: the session is not active and, once every
\* task has ended, the count of entries is back at its value before the
\* registrations; the callback of a task runs once and cleaning up a session
\* again changes nothing.
C20_HandleRemovedOnTermination ==
    /\ []C20_Invariant
    /\ [][C20_Step]_vars
    /\ \A t \in Tasks : (tm.state[t] = "done") ~> CleanedUp(t)

\* tasks ended in each of the three ways and every handle is gone
C20_Witness ==
    /\ Quiesced
    /\ {tm.outcome[t] : t \in Tasks} = {"returned", "raised", "cancelled"}
    /\ \A t \in Tasks : tm.cleaned[t] = 1
    /\ GetActiveCount(tm.tasks) = 0


\* ========================================================================
\* Properties of cancellation and of the event order of a stream
\* ========================================================================
Types(events) == {events[i].type : i \in 1..Len(events)}

\* C21: a stream whose task was cancelled from outside ends with a cancelled
\* event and carries neither an error nor a done event, and a cancelled event
\* is delivered only by a stream whose task was cancelled.
C21_CancelledStreamEndsCancelled ==
    /\ (stream.pc = "closed" /\ stream.cancelled)
       => /\ Len(stream.sent) > 0
          /\ Last(stream.sent).type = "cancelled"
          /\ Types(stream.sent) \cap {"error", "done"} = {}
    /\ "cancelled" \in Types(stream.sent) => stream.cancelled

C22_Step ==
    (stream.cancelled /\ stream.pc \in InFlight)
    => /\ stream'.sent \in {stream.sent, Append(stream.sent, Ev("cancelled", None))}
       /\ stream'.pc = "closed" => stream'.sent = Append(stream.sent, Ev("cancelled", None))

\* C22: once the task of a running stream has been cancelled, the stream
\* delivers no further content event: the task may stay suspended in the call
\* in progress, and the one event it delivers from then on is the cancelled
\* event, with which it ends.
C22_NoContentAfterCancel == [][C22_Step]_vars

Contents(events) == {i \in 1..Len(events) : events[i].type = "content"}

\* C23: in a stream of process_query_streaming that holds a content event,
\* the first event is the metadata event naming the agent that answers and
\* every content event comes after it; when the agent completed without a
\* failure the stream ends with a done event, which follows the last content
\* event.
C23_MetadataFirstDoneLast ==
    (stream.layer = "route" /\ stream.pc # "idle")
    => /\ Contents(stream.events) # {}
          => /\ stream.events[1] = Ev("metadata", AgentName(stream.selected))
             /\ \A i \in Contents(stream.events) : i > 1
       /\ stream.agent_outcome = "completed"
          => /\ Last(stream.events).type = "done"
             /\ \A i \in Contents(stream.events) : i < Len(stream.events)
             /\ \A i \in 1..(Len(stream.events) - 1) : stream.events[i].type # "done"

\* the classifier chose the Kubernetes expert, whose response was streamed in
\* two chunks and read to its end
C23_Witness ==
    /\ stream.layer = "route"
    /\ stream.branch = "classifier"
    /\ stream.agent_outcome = "completed"
    /\ stream.events = <<Ev("metadata", AgentName("kubernetesexpert")),
                         Ev("content", None), Ev("content", None), Ev("done", None)>>


\* ========================================================================
\* Properties of the enabled set under concurrent toggles
\* ========================================================================
C24_Step ==
    /\ (stream.pc = "idle" /\ stream'.pc # "idle")
       => /\ stream'.agents_lower = GetEnabledAgents(disabled, agents)
          /\ stream'.collaborators = EnabledCollaborators(stream'.agents_lower)
    /\ (stream.pc # "idle" /\ stream'.pc # "idle")
       => /\ stream'.agents_lower = stream.agents_lower
          /\ stream'.collaborators = stream.collaborators
          /\ stream.selected # None => stream'.selected = stream.selected
    /\ (stream.pc = "classifier" /\ stream'.selected # None)
       => stream'.selected \in Range(stream.collaborators)

\* C24: the enabled set is resolved when an invocation starts, from the
\* toggles made so far; a toggle made while the invocation is in flight
\* changes neither the enabled agents and collaborators it works with nor an
\* agent it has selected, and the classifier selects among the collaborators
\* resolved at the start.
C24_EnabledSetReadOnce == [][C24_Step]_vars

\* the classifier answered for an invocation that started with every agent
\* enabled; the Python expert, disabled while the classifier's call was
\* awaited, is selected and invoked
C24_Witness ==
    /\ stream.pc = "agent"
    /\ stream.branch = "classifier"
    /\ stream.query = "deploy a pod"
    /\ stream.reply = [kind |-> "reply", text |-> "pythonexpert"]
    /\ stream.selected = "pythonexpert"
    /\ stream.agents_lower = AllAgents
    /\ {"pythonexpert", "systemarchitect"} \subseteq disabled


\* ========================================================================
\* Properties of the classifier's fallback
\* ========================================================================
\* the classifier's reply names none of the collaborators it was built with
NamesNoCollaborator(st) ==
    /\ st.reply.kind = "reply"
    /\ \A k \in Range(st.collaborators) : ~Contains(Lower(st.reply.text), k)

C26_NoAgentsNoBackend ==
    GetEnabledAgents(disabled, agents) = <<>>
    => /\ handle.pc # "awaiting"
       /\ (stream.layer = "route" /\ stream.pc # "idle")
          => /\ stream.classifier_calls = 0
             /\ stream.agent_calls = 0
             /\ stream.events = <<Ev("error", None)>>


\* ========================================================================
\* Properties of the gateway's deadline and try-order
\* ========================================================================
\* C27: every call of the gateway, chat and chat_stream alike, that waits
\* for a provider which never answers has the request deadline pending, whose
\* expiry is recorded as a failure of that provider and moves the call on to
\* the next candidate.
C27_EveryCallHasDeadline ==
    \A r \in Req : (req[r].pc = "await" /\ req[r].silent) => req[r].deadline


\* the fallback chain of the call of r, the registration order when no chain
\* was set, restricted to the providers healthy when the call began
HealthyAtStart(r) ==
    LET WasHealthy(p) == req[r].base[p].healthy
    IN  SelectSeq(IF fallback_chain = <<>> THEN providers ELSE fallback_chain,
                  WasHealthy)

\* C28: the try-order of a call with no hint and fallback enabled is the
\* fallback chain restricted to the providers healthy when the call begins,
\* in chain order; when none of them is healthy it is every registered
\* provider, so that the call contacts a provider, and has contacted each
\* registered provider when it ends because the candidates are exhausted.
C28_TryOrder ==
    \A r \in Req :
        (req[r].hint = None /\ fallback_enabled)
        => /\ req[r].pc = "await"
              => req[r].order = IF HealthyAtStart(r) # <<>>
                                THEN HealthyAtStart(r)
                                ELSE providers
           /\ (req[r].pc = "done" /\ HealthyAtStart(r) = <<>>)
              => /\ Len(req[r].contacted) >= 1
                 /\ req[r].contacted = SubSeq(providers, 1, Len(req[r].contacted))
                 /\ req[r].result.error # "no_providers"
                 /\ req[r].result.error \in {"timeout", "retriable", "exception"}
                    => req[r].contacted = providers

\* no provider was healthy when the call began: the three registered
\* providers were contacted in registration order and the third one answered
C28_Witness ==
    \E r \in Req :
        /\ req[r].pc = "done" /\ req[r].hint = None /\ fallback_enabled
        /\ fallback_chain = <<"backup", "primary">>
        /\ \A p \in Registered : ~req[r].base[p].healthy
        /\ req[r].contacted = <<"primary", "backup", "spare">>
        /\ req[r].result = [kind |-> "ok", from |-> "spare", error |-> None]


\* ========================================================================
\* Properties of the task manager: one session's cancellation
\* ========================================================================
C29_Invariant ==
    \A t \in Tasks :
        (tm.state[t] = "cancelling" \/ tm.outcome[t] = "cancelled")
        => tm.registered[t] \in tm.requested

C29_Step ==
    tm'.calls = tm.calls + 1
    => LET s == Last(tm'.log).session
       IN  /\ \A o \in Sessions \ {s} :
                 /\ tm'.tasks[o] = tm.tasks[o]
                 /\ IsActive(tm.tasks, tm.state, o) => IsActive(tm'.tasks, tm'.state, o)
           /\ \A t \in Tasks \ {tm.tasks[s]} :
                 /\ tm'.state[t] = tm.state[t]
                 /\ tm'.outcome[t] = tm.outcome[t]
           /\ tm'.callbacks = tm.callbacks

\* C29: cancel_task(s) cancels the task of s alone: the entry of every other
\* session and the state of every other task are left as they were, an
\* active session stays active, and a task ends cancelled only if
\* cancel_task of its own session returned True.
C29_CancelAffectsOneSession == []C29_Invariant /\ [][C29_Step]_vars

\* the tasks of s1 and s2 ran concurrently; cancel_task("s1") was the one
\* cancel call: the task of s1 ended cancelled, the task of s2 returned
C29_Witness ==
    /\ tm.registered["t1"] = "s1" /\ tm.registered["t2"] = "s2"
    /\ tm.requested = {"s1"} /\ tm.calls = 1
    /\ tm.outcome["t1"] = "cancelled"
    /\ tm.outcome["t2"] = "returned"


\* ========================================================================
\* Properties of the terminal event
\* ========================================================================
\* no event follows a done, error or cancelled event
TerminalOnlyLast(events) ==
    \A i \in 1..(Len(events) - 1) : events[i].type \notin Terminal

\* C30: a stream holds exactly one terminal event (done, error or cancelled),
\* which is its last element, in what process_query_streaming yields as in
\* what ChatService and the route deliver: no event follows a terminal event
\* and a stream that has ended holds one.
C30_ExactlyOneTerminalEvent ==
    /\ TerminalOnlyLast(stream.events)
    /\ TerminalOnlyLast(stream.sent)
    /\ stream.pc = "closed"
       => /\ Types(stream.sent) \cap Terminal # {}
          /\ stream.layer = "route" => Types(stream.events) \cap Terminal # {}

====
